---- MODULE Spec2Model ----
(***************************************************************************)
(* multitag: one facade (Tag) over four tag codecs (id3, metaflac,         *)
(* mp4ameta, opusmeta).  A Tag is modelled by its variant and the content  *)
(* of the codec's in-memory tag: a map from comment key / frame id / atom  *)
(* to the list of its values, and the list of embedded pictures.           *)
(*                                                                         *)
(* Text is a sequence of one-character strings, so that joining, number    *)
(* formatting and timestamp parsing are computed character by character.   *)
(* An Option is a sequence of length at most one: None is <<>> and Some(x) *)
(* is <<x>>.                                                               *)
(***************************************************************************)
EXTENDS Integers, Sequences, FiniteSets, TLC

VARIABLES tag, other, last

vars == <<tag, other, last>>

None == <<>>

Some(x) == <<x>>

IsSome(o) == Len(o) = 1

(* slice::first / Iterator::next on a fresh iterator *)
First(s) == IF Len(s) > 0 THEN Some(s[1]) ELSE None

(***************************************************************************)
(* Bounds of the model.                                                    *)
(***************************************************************************)
(* the most values one comment key or atom holds: in a parsed file, and *)
(* as the cap on the appends of opusmeta's add_one                      *)
MaxValues == 2

(* the most keys, frames or atoms of one field group a parsed file holds *)
MaxFileKeys == 1

(* the most pictures a parsed file holds *)
MaxFilePics == 1

(***************************************************************************)
(* The codecs' key -> values maps (HashMap<String, Vec<String>> in         *)
(* metaflac and opusmeta, frames by id in id3, atoms by ident in mp4ameta).*)
(***************************************************************************)
EmptyMap == [k \in {} |-> <<>>]

MapGet(m, k) == IF k \in DOMAIN m THEN Some(m[k]) ELSE None

MapPut(m, k, v) == [x \in (DOMAIN m) \cup {k} |-> IF x = k THEN v ELSE m[x]]

MapRemove(m, k) == [x \in (DOMAIN m) \ {k} |-> m[x]]

(* HashMap::entry(k).or_default().push(v) *)
MapPush(m, k, v) == MapPut(m, k, (IF k \in DOMAIN m THEN m[k] ELSE <<>>) \o <<v>>)

(***************************************************************************)
(* Text helpers.                                                           *)
(***************************************************************************)
RECURSIVE Join(_, _)
(* [&str]::join(sep) *)
Join(vs, sep) ==
    IF Len(vs) = 0 THEN <<>>
    ELSE IF Len(vs) = 1 THEN vs[1]
    ELSE vs[1] \o sep \o Join(Tail(vs), sep)

DigitChar == <<"0", "1", "2", "3", "4", "5", "6", "7", "8", "9">>

IsDigit(c) == \E d \in 1..10 : DigitChar[d] = c

DigitVal(c) == (CHOOSE d \in 1..10 : DigitChar[d] = c) - 1

RECURSIVE Digits(_)
(* the decimal digits of a natural number *)
Digits(n) == IF n < 10 THEN <<DigitChar[n + 1]>> ELSE Digits(n \div 10) \o <<DigitChar[(n % 10) + 1]>>

RECURSIVE ZeroPad(_, _)
ZeroPad(s, w) == IF Len(s) >= w THEN s ELSE ZeroPad(<<"0">> \o s, w)

(* format!("{:0w}", n): sign-aware zero padding, the width counts the sign *)
FmtInt(n, w) == IF n < 0 THEN <<"-">> \o ZeroPad(Digits(-n), w - 1) ELSE ZeroPad(Digits(n), w)

(***************************************************************************)
(* data.rs: Timestamp                                                      *)
(***************************************************************************)
Timestamp(y, mo, d, h, mi, s) ==
    [year |-> y, month |-> mo, day |-> d, hour |-> h, minute |-> mi, second |-> s]

UnwrapOrDefault(o) == IF IsSome(o) THEN o[1] ELSE 0

(* FormatDate with an absent month or day written as 01 *)
FormatDate_DefaultOne(ts) ==
    FmtInt(ts.year, 4) \o <<"-">> \o FmtInt(IF IsSome(ts.month) THEN ts.month[1] ELSE 1, 2)
        \o <<"-">> \o FmtInt(IF IsSome(ts.day) THEN ts.day[1] ELSE 1, 2)

(* format!("{:04}-{:02}-{:02}", year, month.unwrap_or_default(), day.unwrap_or_default()) *)
FormatDate(ts) ==
    FmtInt(ts.year, 4) \o <<"-">> \o FmtInt(UnwrapOrDefault(ts.month), 2)
        \o <<"-">> \o FmtInt(UnwrapOrDefault(ts.day), 2)

(* Display of the ID3v2.4 timestamp: each component is written only when  *)
(* every one before it is present                                         *)
Id3TimestampToString(ts) ==
    FmtInt(ts.year, 4) \o
    (IF ~IsSome(ts.month) THEN <<>> ELSE <<"-">> \o FmtInt(ts.month[1], 2) \o
    (IF ~IsSome(ts.day) THEN <<>> ELSE <<"-">> \o FmtInt(ts.day[1], 2) \o
    (IF ~IsSome(ts.hour) THEN <<>> ELSE <<"T">> \o FmtInt(ts.hour[1], 2) \o
    (IF ~IsSome(ts.minute) THEN <<>> ELSE <<":">> \o FmtInt(ts.minute[1], 2) \o
    (IF ~IsSome(ts.second) THEN <<>> ELSE <<":">> \o FmtInt(ts.second[1], 2))))))

RECURSIVE DigitRun(_)
(* the longest prefix of s made of digits *)
DigitRun(s) == IF Len(s) > 0 /\ IsDigit(s[1]) THEN <<s[1]>> \o DigitRun(Tail(s)) ELSE <<>>

RECURSIVE NumVal(_, _)
NumVal(ds, acc) == IF Len(ds) = 0 THEN acc ELSE NumVal(Tail(ds), acc * 10 + DigitVal(ds[1]))

Drop(s, n) == SubSeq(s, n + 1, Len(s))

(* one optional component of the timestamp grammar: the separator sep and *)
(* a number below 100; <<value, rest>> or None                            *)
ParseComponent(s, sep) ==
    IF Len(s) = 0 \/ s[1] # sep THEN None
    ELSE LET ds == DigitRun(Tail(s)) IN
         IF Len(ds) = 0 \/ NumVal(ds, 0) >= 100 THEN None
         ELSE Some(<<NumVal(ds, 0), Drop(s, 1 + Len(ds))>>)

(* Timestamp::from_str, that is id3's Timestamp::from_str followed by the *)
(* field-for-field From<Id3Timestamp>: the year is required, the other    *)
(* components are read as far as the text matches; Err is None            *)
TimestampFromStr(s) ==
    LET ys == DigitRun(s) IN
    IF Len(ys) = 0 THEN None
    ELSE
      LET r0 == Drop(s, Len(ys))
          p1 == ParseComponent(r0, "-")
          p2 == IF IsSome(p1) THEN ParseComponent(p1[1][2], "-") ELSE None
          p3 == IF IsSome(p2) THEN ParseComponent(p2[1][2], "T") ELSE None
          p4 == IF IsSome(p3) THEN ParseComponent(p3[1][2], ":") ELSE None
          p5 == IF IsSome(p4) THEN ParseComponent(p4[1][2], ":") ELSE None
          V(p) == IF IsSome(p) THEN Some(p[1][1]) ELSE None
      IN Some(Timestamp(NumVal(ys, 0), V(p1), V(p2), V(p3), V(p4), V(p5)))

(***************************************************************************)
(* data.rs: Picture and its conversions.  A neutral Picture is             *)
(* [data, mime_type]; the id3, metaflac and opusmeta pictures are          *)
(* [data, mime_type, picture_type]; the mp4ameta image is [data, fmt].     *)
(***************************************************************************)
Picture(d, m) == [data |-> d, mime_type |-> m]

NativePicture(m, pt, d) == [data |-> d, mime_type |-> m, picture_type |-> pt]

(* From<Id3Picture>, From<FlacPicture>, From<OpusPicture> for Picture *)
PictureFromNative(p) == Picture(p.data, p.mime_type)

(* .map(|pic| Picture::from(pic.clone())) on the picture found *)
CoverFromNative(o) == IF IsSome(o) THEN Some(PictureFromNative(o[1])) ELSE None

(* From<Picture> for OpusPicture: OpusPicture::new() has the default type *)
OpusPictureFrom(pic) == NativePicture(pic.mime_type, "Other", pic.data)

(* From<Mp4Picture<&[u8]>> for Picture *)
PictureFromMp4(img) ==
    Picture(img.data,
            CASE img.fmt = "Bmp" -> "image/bmp"
              [] img.fmt = "Jpeg" -> "image/jpeg"
              [] img.fmt = "Png" -> "image/png")

(* Mp4PictureTryFrom with an unknown mime type taken for a jpeg *)
Mp4PictureTryFrom_Coerce(pic) ==
    CASE pic.mime_type = "image/bmp" -> Some([data |-> pic.data, fmt |-> "Bmp"])
      [] pic.mime_type = "image/png" -> Some([data |-> pic.data, fmt |-> "Png"])
      [] OTHER -> Some([data |-> pic.data, fmt |-> "Jpeg"])

(* TryFrom<Picture> for Mp4Picture<Vec<u8>>: Ok(img) is Some(img), *)
(* Err(InvalidImageFormat) is None                                  *)
Mp4PictureTryFrom(pic) ==
    CASE pic.mime_type = "image/bmp" -> Some([data |-> pic.data, fmt |-> "Bmp"])
      [] pic.mime_type = "image/jpeg" -> Some([data |-> pic.data, fmt |-> "Jpeg"])
      [] pic.mime_type = "image/png" -> Some([data |-> pic.data, fmt |-> "Png"])
      [] OTHER -> None

(* inner.artwork().map(Picture::from) *)
CoverFromMp4(o) == IF IsSome(o) THEN Some(PictureFromMp4(o[1])) ELSE None

Album(t, a, c) == [title |-> t, artist |-> a, cover |-> c]

(***************************************************************************)
(* The codecs' tags behind the facade.                                     *)
(***************************************************************************)
Kinds == {"Id3Tag", "VorbisFlacTag", "Mp4Tag", "OpusTag"}

Tag(k, c, p) == [kind |-> k, comments |-> c, pictures |-> p]

(* Id3InternalTag::default(), FlacInternalTag::default(), Mp4InternalTag::default() *)
DefaultTag(k) == Tag(k, EmptyMap, <<>>)

new_empty_id3 == DefaultTag("Id3Tag")

new_empty_flac == DefaultTag("VorbisFlacTag")

new_empty_mp4 == DefaultTag("Mp4Tag")

(* const DATE_FOURCC: the atom (c)day *)
DATE_FOURCC == "(c)day"

(* opusmeta lower-cases the key in add_one, get and remove_entries *)
LowerKey(k) ==
    CASE k = "TITLE" -> "title"
      [] k = "ARTIST" -> "artist"
      [] k = "ALBUM" -> "album"
      [] k = "ALBUMARTIST" -> "albumartist"
      [] k = "ALBUM_ARTIST" -> "album_artist"
      [] k = "DATE" -> "date"
      [] OTHER -> k

(* opusmeta: Tag::get, Tag::add_one, Tag::remove_entries *)
OpusGet(t, k) == MapGet(t.comments, LowerKey(k))

OpusAddOne(t, k, v) == [t EXCEPT !.comments = MapPush(@, LowerKey(k), v)]

OpusRemoveEntries(t, k) == [t EXCEPT !.comments = MapRemove(@, LowerKey(k))]

(* metaflac: get_vorbis, set_vorbis, remove_vorbis; id3: the text frame of *)
(* an id (set_text replaces it); mp4ameta: the data of an atom (set_data   *)
(* replaces all of it)                                                     *)
StoreGet(t, k) == MapGet(t.comments, k)

StoreSet(t, k, vs) == [t EXCEPT !.comments = MapPut(@, k, vs)]

StoreRemove(t, k) == [t EXCEPT !.comments = MapRemove(@, k)]

(* the first value under a key: id3 title()/artist()/album()..., mp4ameta *)
(* title()/artist()/album()/album_artist()                                *)
StoreFirst(t, k) == IF k \in DOMAIN t.comments THEN First(t.comments[k]) ELSE None

RECURSIVE WithoutType(_, _)
(* remove_picture_by_type / remove_picture_type: drops every picture of the type *)
WithoutType(ps, pt) ==
    IF Len(ps) = 0 THEN <<>>
    ELSE IF ps[1].picture_type = pt THEN WithoutType(Tail(ps), pt)
    ELSE <<ps[1]>> \o WithoutType(Tail(ps), pt)

RECURSIVE FindType(_, _)
(* pictures().find(|pic| pic.picture_type == pt) / get_picture_type(pt) *)
FindType(ps, pt) ==
    IF Len(ps) = 0 THEN None
    ELSE IF ps[1].picture_type = pt THEN Some(ps[1])
    ELSE FindType(Tail(ps), pt)

(* id3 add_frame of a picture, metaflac add_picture, opusmeta add_picture: *)
(* the picture replaces the pictures of its type                           *)
AddPicture(t, p) == [t EXCEPT !.pictures = WithoutType(@, p.picture_type) \o <<p>>]

RemovePictureType(t, pt) == [t EXCEPT !.pictures = WithoutType(@, pt)]

(***************************************************************************)
(* lib.rs: the facade.  Every operator takes the Tag and returns the       *)
(* getter's value or the Tag after the call.                               *)
(***************************************************************************)
get_album_info(t) ==
    CASE t.kind = "Id3Tag" ->
           Some(Album(StoreFirst(t, "TALB"), StoreFirst(t, "TPE2"),
                      CoverFromNative(FindType(t.pictures, "CoverFront"))))
      [] t.kind = "VorbisFlacTag" ->
           Some(Album(StoreFirst(t, "ALBUM"), StoreFirst(t, "ALBUM_ARTIST"),
                      CoverFromNative(FindType(t.pictures, "CoverFront"))))
      [] t.kind = "Mp4Tag" ->
           Some(Album(StoreFirst(t, "(c)alb"), StoreFirst(t, "aART"),
                      CoverFromMp4(First(t.pictures))))
      [] t.kind = "OpusTag" ->
           Some(Album(IF IsSome(OpusGet(t, "ALBUM")) THEN First(OpusGet(t, "ALBUM")[1]) ELSE None,
                      IF IsSome(OpusGet(t, "ALBUM_ARTIST"))
                         THEN First(OpusGet(t, "ALBUM_ARTIST")[1]) ELSE None,
                      CoverFromNative(FindType(t.pictures, "CoverFront"))))

(* the Tag after set_album_info(album) and the call's result *)
set_album_info(t, album) ==
    CASE t.kind = "Id3Tag" ->
           LET t1 == IF IsSome(album.title) THEN StoreSet(t, "TALB", <<album.title[1]>>) ELSE t
               t2 == IF IsSome(album.artist) THEN StoreSet(t1, "TPE2", <<album.artist[1]>>) ELSE t1
               t3 == IF IsSome(album.cover)
                        THEN AddPicture(t2, NativePicture(album.cover[1].mime_type, "CoverFront",
                                                          album.cover[1].data))
                        ELSE t2
           IN [tag |-> t3, res |-> "Ok"]
      [] t.kind = "VorbisFlacTag" ->
           LET t1 == IF IsSome(album.title) THEN StoreSet(t, "ALBUM", <<album.title[1]>>) ELSE t
               t2 == IF IsSome(album.artist)
                        THEN StoreSet(StoreSet(StoreSet(t1, "ALBUMARTIST", <<album.artist[1]>>),
                                               "ALBUM ARTIST", <<album.artist[1]>>),
                                      "ALBUM_ARTIST", <<album.artist[1]>>)
                        ELSE t1
               t3 == IF IsSome(album.cover)
                        THEN AddPicture(RemovePictureType(t2, "CoverFront"),
                                        NativePicture(album.cover[1].mime_type, "CoverFront",
                                                      album.cover[1].data))
                        ELSE t2
           IN [tag |-> t3, res |-> "Ok"]
      [] t.kind = "Mp4Tag" ->
           LET t1 == IF IsSome(album.title) THEN StoreSet(t, "(c)alb", <<album.title[1]>>) ELSE t
               t2 == IF IsSome(album.artist) THEN StoreSet(t1, "aART", <<album.artist[1]>>) ELSE t1
               img == IF IsSome(album.cover) THEN Mp4PictureTryFrom(album.cover[1]) ELSE None
           IN IF ~IsSome(album.cover) THEN [tag |-> t2, res |-> "Ok"]
              ELSE IF ~IsSome(img) THEN [tag |-> t2, res |-> "InvalidImageFormat"]
              ELSE [tag |-> [t2 EXCEPT !.pictures = <<img[1]>>], res |-> "Ok"]
      [] t.kind = "OpusTag" ->
           LET t1 == IF IsSome(album.title) THEN OpusAddOne(t, "ALBUM", album.title[1]) ELSE t
               t2 == IF IsSome(album.artist)
                        THEN OpusAddOne(OpusAddOne(t1, "ALBUMARTIST", album.artist[1]),
                                        "ALBUM_ARTIST", album.artist[1])
                        ELSE t1
               t3 == IF IsSome(album.cover)
                        THEN AddPicture(t2, [OpusPictureFrom(album.cover[1])
                                               EXCEPT !.picture_type = "CoverFront"])
                        ELSE t2
           IN [tag |-> t3, res |-> "Ok"]

(* remove_all_album_info that removes only the spelling get_album_info reads *)
remove_all_album_info_OneSpelling(t) ==
    CASE t.kind = "Id3Tag" ->
           RemovePictureType(StoreRemove(StoreRemove(t, "TALB"), "TPE2"), "CoverFront")
      [] t.kind = "VorbisFlacTag" ->
           RemovePictureType(StoreRemove(StoreRemove(t, "ALBUM"), "ALBUM_ARTIST"), "CoverFront")
      [] t.kind = "Mp4Tag" ->
           [StoreRemove(StoreRemove(t, "(c)alb"), "aART") EXCEPT !.pictures = <<>>]
      [] t.kind = "OpusTag" ->
           RemovePictureType(
               OpusRemoveEntries(OpusRemoveEntries(OpusRemoveEntries(t, "ALBUM"), "ALBUMARTIST"),
                                 "ALBUM_ARTIST"),
               "CoverFront")

remove_all_album_info(t) ==
    CASE t.kind = "Id3Tag" ->
           RemovePictureType(StoreRemove(StoreRemove(t, "TALB"), "TPE2"), "CoverFront")
      [] t.kind = "VorbisFlacTag" ->
           RemovePictureType(
               StoreRemove(StoreRemove(StoreRemove(StoreRemove(t, "ALBUM"), "ALBUMARTIST"),
                                       "ALBUM ARTIST"), "ALBUM_ARTIST"),
               "CoverFront")
      [] t.kind = "Mp4Tag" ->
           [StoreRemove(StoreRemove(t, "(c)alb"), "aART") EXCEPT !.pictures = <<>>]
      [] t.kind = "OpusTag" ->
           RemovePictureType(
               OpusRemoveEntries(OpusRemoveEntries(OpusRemoveEntries(t, "ALBUM"), "ALBUMARTIST"),
                                 "ALBUM_ARTIST"),
               "CoverFront")

title(t) ==
    CASE t.kind = "Id3Tag" -> StoreFirst(t, "TIT2")
      [] t.kind = "VorbisFlacTag" ->
           IF IsSome(StoreGet(t, "TITLE")) THEN First(StoreGet(t, "TITLE")[1]) ELSE None
      [] t.kind = "Mp4Tag" -> StoreFirst(t, "(c)nam")
      [] t.kind = "OpusTag" ->
           IF IsSome(OpusGet(t, "TITLE")) THEN First(OpusGet(t, "TITLE")[1]) ELSE None

set_title(t, s) ==
    CASE t.kind = "Id3Tag" -> StoreSet(t, "TIT2", <<s>>)
      [] t.kind = "VorbisFlacTag" -> StoreSet(t, "TITLE", <<s>>)
      [] t.kind = "Mp4Tag" -> StoreSet(t, "(c)nam", <<s>>)
      [] t.kind = "OpusTag" -> OpusAddOne(t, "TITLE", s)

remove_title(t) ==
    CASE t.kind = "Id3Tag" -> StoreRemove(t, "TIT2")
      [] t.kind = "VorbisFlacTag" -> StoreRemove(t, "TITLE")
      [] t.kind = "Mp4Tag" -> StoreRemove(t, "(c)nam")
      [] t.kind = "OpusTag" -> OpusRemoveEntries(t, "TITLE")

(* "; " *)
ArtistDelimiter == <<";", " ">>

artist(t) ==
    CASE t.kind = "Id3Tag" -> StoreFirst(t, "TPE1")
      [] t.kind = "VorbisFlacTag" ->
           IF ~IsSome(StoreGet(t, "ARTIST")) THEN None
           ELSE LET s == Join(StoreGet(t, "ARTIST")[1], ArtistDelimiter)
                IN IF s # <<>> THEN Some(s) ELSE None
      [] t.kind = "Mp4Tag" -> StoreFirst(t, "(c)ART")
      [] t.kind = "OpusTag" ->
           IF ~IsSome(OpusGet(t, "ARTIST")) THEN None
           ELSE Some(Join(OpusGet(t, "ARTIST")[1], ArtistDelimiter))

set_artist(t, s) ==
    CASE t.kind = "Id3Tag" -> StoreSet(t, "TPE1", <<s>>)
      [] t.kind = "VorbisFlacTag" -> StoreSet(t, "ARTIST", <<s>>)
      [] t.kind = "Mp4Tag" -> StoreSet(t, "(c)ART", <<s>>)
      [] t.kind = "OpusTag" -> OpusAddOne(OpusRemoveEntries(t, "ARTIST"), "ARTIST", s)

remove_artist(t) ==
    CASE t.kind = "Id3Tag" -> StoreRemove(t, "TPE1")
      [] t.kind = "VorbisFlacTag" -> StoreRemove(t, "ARTIST")
      [] t.kind = "Mp4Tag" -> StoreRemove(t, "(c)ART")
      [] t.kind = "OpusTag" -> OpusRemoveEntries(t, "ARTIST")

(* s.and_then(|s| Timestamp::from_str(s).ok()) on the first value of a key *)
ParseFirst(vs) == IF Len(vs) > 0 THEN TimestampFromStr(vs[1]) ELSE None

date(t) ==
    CASE t.kind = "Id3Tag" ->
           IF IsSome(StoreFirst(t, "TDRL")) THEN TimestampFromStr(StoreFirst(t, "TDRL")[1]) ELSE None
      [] t.kind = "VorbisFlacTag" ->
           IF IsSome(StoreGet(t, "DATE")) THEN ParseFirst(StoreGet(t, "DATE")[1]) ELSE None
      [] t.kind = "Mp4Tag" ->
           IF IsSome(StoreFirst(t, DATE_FOURCC))
              THEN TimestampFromStr(StoreFirst(t, DATE_FOURCC)[1]) ELSE None
      [] t.kind = "OpusTag" ->
           IF IsSome(OpusGet(t, "DATE")) THEN ParseFirst(OpusGet(t, "DATE")[1]) ELSE None

set_date(t, ts) ==
    CASE t.kind = "Id3Tag" -> StoreSet(t, "TDRL", <<Id3TimestampToString(ts)>>)
      [] t.kind = "VorbisFlacTag" -> StoreSet(t, "DATE", <<FormatDate(ts)>>)
      [] t.kind = "Mp4Tag" -> StoreSet(t, DATE_FOURCC, <<FormatDate(ts)>>)
      [] t.kind = "OpusTag" -> OpusAddOne(OpusRemoveEntries(t, "DATE"), "DATE", FormatDate(ts))

remove_date(t) ==
    CASE t.kind = "Id3Tag" -> StoreRemove(t, "TDRL")
      [] t.kind = "VorbisFlacTag" -> StoreRemove(t, "DATE")
      [] t.kind = "Mp4Tag" -> StoreRemove(t, DATE_FOURCC)
      [] t.kind = "OpusTag" -> OpusRemoveEntries(t, "DATE")

(* the destination after self.copy_to(other); the result of set_album_info *)
(* is discarded                                                            *)
copy_to(self, dst) ==
    LET o1 == IF IsSome(get_album_info(self))
                 THEN set_album_info(dst, get_album_info(self)[1]).tag ELSE dst
        o2 == IF IsSome(title(self)) THEN set_title(o1, title(self)[1]) ELSE o1
        o3 == IF IsSome(artist(self)) THEN set_artist(o2, artist(self)[1]) ELSE o2
        o4 == IF IsSome(date(self)) THEN set_date(o3, date(self)[1]) ELSE o3
    IN o4

(***************************************************************************)
(* lib.rs: read_from_path.  The path's extension is Path::extension()      *)
(* (absent, or present and valid unicode or not); the codec's parser is an *)
(* input: Ok with the parsed native tag, or Err with an error kind.        *)
(***************************************************************************)
NoExtension == [present |-> FALSE, unicode |-> FALSE, text |-> ""]

NonUnicodeExtension == [present |-> TRUE, unicode |-> FALSE, text |-> ""]

Extension(s) == [present |-> TRUE, unicode |-> TRUE, text |-> s]

(* ExtensionCodec without aiff *)
ExtensionCodec_NoAiff(e) ==
    CASE e \in {"mp3", "wav"} -> "id3"
      [] e = "flac" -> "metaflac"
      [] e \in {"mp4", "m4a", "m4p", "m4b", "m4r", "m4v"} -> "mp4ameta"
      [] e = "opus" -> "opusmeta"
      [] OTHER -> "none"

(* the match on the extension: the codec it selects *)
ExtensionCodec(e) ==
    CASE e \in {"mp3", "wav", "aiff"} -> "id3"
      [] e = "flac" -> "metaflac"
      [] e \in {"mp4", "m4a", "m4p", "m4b", "m4r", "m4v"} -> "mp4ameta"
      [] e = "opus" -> "opusmeta"
      [] OTHER -> "none"

CodecKind(c) ==
    CASE c = "id3" -> "Id3Tag"
      [] c = "metaflac" -> "VorbisFlacTag"
      [] c = "mp4ameta" -> "Mp4Tag"
      [] c = "opusmeta" -> "OpusTag"

(* the #[from] wrappers of the codecs' errors *)
CodecError(c, e) ==
    [kind |-> e,
     variant |-> CASE c = "id3" -> "Id3Error"
                   [] c = "metaflac" -> "FlacError"
                   [] c = "mp4ameta" -> "Mp4Error"
                   [] c = "opusmeta" -> "OpusError"]

PlainError(v) == [kind |-> "", variant |-> v]

ParseOk(native) == [kind |-> "", ok |-> TRUE, inner |-> <<native>>]

ParseErr(e) == [kind |-> e, ok |-> FALSE, inner |-> <<>>]

ReadOk(c, t) == [tag |-> <<t>>, ok |-> TRUE, err |-> <<>>, codec |-> c]

ReadErr(c, e) == [tag |-> <<>>, ok |-> FALSE, err |-> <<e>>, codec |-> c]

(* IsNoTag that takes every error for a missing tag *)
IsNoTag_AnyError(parse) == ~parse.ok

(* res.as_ref().is_err_and(|e| matches!(e.kind, ErrorKind::NoTag)) *)
IsNoTag(parse) == ~parse.ok /\ parse.kind = "NoTag"

(* parse is the result of the selected codec's read_from_path; it is not *)
(* looked at when no codec is selected                                   *)
read_from_path(ext, parse) ==
    IF ~ext.present THEN ReadErr("none", PlainError("NoFileExtension"))
    ELSE IF ~ext.unicode THEN ReadErr("none", PlainError("InvalidFileExtension"))
    ELSE LET c == ExtensionCodec(ext.text) IN
      CASE c = "id3" ->
             IF IsNoTag(parse) THEN ReadOk(c, DefaultTag("Id3Tag"))
             ELSE IF parse.ok THEN ReadOk(c, parse.inner[1])
             ELSE ReadErr(c, CodecError(c, parse.kind))
        [] c = "metaflac" ->
             IF parse.ok THEN ReadOk(c, parse.inner[1]) ELSE ReadErr(c, CodecError(c, parse.kind))
        [] c = "mp4ameta" ->
             IF IsNoTag(parse) THEN ReadOk(c, DefaultTag("Mp4Tag"))
             ELSE IF parse.ok THEN ReadOk(c, parse.inner[1])
             ELSE ReadErr(c, CodecError(c, parse.kind))
        [] c = "opusmeta" ->
             IF parse.ok THEN ReadOk(c, parse.inner[1]) ELSE ReadErr(c, CodecError(c, parse.kind))
        [] OTHER -> ReadErr("none", PlainError("UnsupportedAudioFormat"))

(***************************************************************************)
(* The callers' inputs.                                                    *)
(***************************************************************************)
sA == <<"A">>

sB == <<"B">>

Titles == {sA, sB}

Artists == {<<>>, sA, sB}

Years == {-5, 7, 2024, 12345}

Timestamps ==
    {Timestamp(y, mo, d, h, mi, s) :
        y \in Years, mo \in {None, Some(3), Some(200)}, d \in {None, Some(15)},
        h \in {None, Some(10)}, mi \in {None, Some(30)}, s \in {None, Some(45)}}

Covers ==
    {Picture(<<1>>, "image/bmp"), Picture(<<2>>, "image/jpeg"), Picture(<<1>>, "image/png"),
     Picture(<<2>>, "image/gif"), Picture(<<1>>, "image/PNG")}

Albums ==
    {Album(t, a, c) : t \in {None} \cup {Some(x) : x \in Titles},
                      a \in {None} \cup {Some(x) : x \in Titles},
                      c \in {None} \cup {Some(x) : x \in Covers}}

Extensions ==
    {NoExtension, NonUnicodeExtension} \cup
    {Extension(e) : e \in {"mp3", "wav", "aiff", "flac", "mp4", "m4a", "m4p", "m4b", "m4r",
                           "m4v", "opus", "txt", "MP3", "ogg"}}

(* the kinds of error a codec's parser reports *)
ErrorKinds == {"NoTag", "Io", "Parsing"}

(***************************************************************************)
(* The native tags a codec parses from a bounded file.                     *)
(***************************************************************************)
SeqsUpTo(S, n) == UNION {[1..k -> S] : k \in 1..n}

TextKeys(k) ==
    CASE k = "Id3Tag" -> {"TIT2", "TPE1"}
      [] k = "VorbisFlacTag" -> {"TITLE", "ARTIST"}
      [] k = "Mp4Tag" -> {"(c)nam", "(c)ART"}
      [] k = "OpusTag" -> {"title", "artist"}

AlbumKeys(k) ==
    CASE k = "Id3Tag" -> {"TALB", "TPE2"}
      [] k = "VorbisFlacTag" -> {"ALBUM", "ALBUMARTIST", "ALBUM ARTIST", "ALBUM_ARTIST"}
      [] k = "Mp4Tag" -> {"(c)alb", "aART"}
      [] k = "OpusTag" -> {"album", "albumartist", "album_artist"}

DateKeys(k) ==
    CASE k = "Id3Tag" -> {"TDRL"}
      [] k = "VorbisFlacTag" -> {"DATE"}
      [] k = "Mp4Tag" -> {DATE_FOURCC}
      [] k = "OpusTag" -> {"date"}

(* an id3 text frame holds one text; the other stores hold lists *)
FileLists(k, values) == IF k = "Id3Tag" THEN SeqsUpTo(values, 1) ELSE SeqsUpTo(values, MaxValues)

FileComments(keys, lists) ==
    UNION {[K -> lists] : K \in {X \in SUBSET keys : Cardinality(X) <= MaxFileKeys}}

FilePictures(k) ==
    IF k = "Mp4Tag"
    THEN {<<>>} \cup SeqsUpTo({[data |-> <<3>>, fmt |-> "Jpeg"], [data |-> <<4>>, fmt |-> "Png"]},
                              MaxFilePics)
    ELSE {<<>>} \cup SeqsUpTo({NativePicture("image/jpeg", "CoverFront", <<3>>),
                               NativePicture("image/gif", "CoverFront", <<4>>),
                               NativePicture("image/png", "Other", <<3>>)}, MaxFilePics)

DateTexts ==
    {<<"2", "0", "2", "4">>,
     <<"2", "0", "2", "4", "-", "0", "3", "-", "1", "5", "T", "1", "0", ":", "3", "0">>,
     <<"n", "o", "w">>}

TextFiles ==
    [k \in Kinds |-> {Tag(k, c, <<>>) : c \in FileComments(TextKeys(k), FileLists(k, Titles))}]

AlbumFiles ==
    [k \in Kinds |-> {Tag(k, c, p) : c \in FileComments(AlbumKeys(k), FileLists(k, Titles)),
                                     p \in FilePictures(k)}]

DateFiles ==
    [k \in Kinds |-> {Tag(k, c, <<>>) : c \in FileComments(DateKeys(k), FileLists(k, DateTexts))}]

(***************************************************************************)
(* The operations.  last records the last call, its arguments and result.  *)
(***************************************************************************)
(* the cap that keeps the appended lists finite *)
WithinBounds(t) == \A k \in DOMAIN t.comments : Len(t.comments[k]) <= MaxValues

(* the Tags a caller can construct: the three new_empty_* constructors and *)
(* read_from_path on a file of one of the supported extensions            *)
Constructed(files) ==
    {new_empty_id3, new_empty_flac, new_empty_mp4} \cup
    UNION {{read_from_path(Extension(e), ParseOk(f)).tag[1] : f \in files[CodecKind(ExtensionCodec(e))]} :
              e \in {"mp3", "flac", "m4a", "opus"}}

ParseResults(c) ==
    IF c = "none" THEN {ParseErr("Io")}
    ELSE {ParseOk(f) : f \in TextFiles[CodecKind(c)]} \cup {ParseErr(e) : e \in ErrorKinds}

ReadFromPath ==
    \E ext \in Extensions :
      \E parse \in ParseResults(IF ext.present /\ ext.unicode
                                   THEN ExtensionCodec(ext.text) ELSE "none") :
        LET r == read_from_path(ext, parse) IN
        /\ tag' = IF r.ok THEN r.tag[1] ELSE tag
        /\ last' = [op |-> "read_from_path", arg |-> ext, parsed |-> parse, result |-> r]
        /\ UNCHANGED other

SetTitle ==
    \E s \in Titles :
        /\ tag' = set_title(tag, s)
        /\ WithinBounds(tag')
        /\ last' = [op |-> "set_title", arg |-> s]
        /\ UNCHANGED other

RemoveTitle ==
    /\ tag' = remove_title(tag)
    /\ last' = [op |-> "remove_title"]
    /\ UNCHANGED other

SetArtist ==
    \E s \in Artists :
        /\ tag' = set_artist(tag, s)
        /\ WithinBounds(tag')
        /\ last' = [op |-> "set_artist", arg |-> s]
        /\ UNCHANGED other

RemoveArtist ==
    /\ tag' = remove_artist(tag)
    /\ last' = [op |-> "remove_artist"]
    /\ UNCHANGED other

SetDate ==
    \E ts \in Timestamps :
        /\ tag' = set_date(tag, ts)
        /\ WithinBounds(tag')
        /\ last' = [op |-> "set_date", arg |-> ts]
        /\ UNCHANGED other

RemoveDate ==
    /\ tag' = remove_date(tag)
    /\ last' = [op |-> "remove_date"]
    /\ UNCHANGED other

SetAlbumInfo ==
    \E album \in Albums :
        /\ tag' = set_album_info(tag, album).tag
        /\ WithinBounds(tag')
        /\ last' = [op |-> "set_album_info", arg |-> album, result |-> set_album_info(tag, album).res]
        /\ UNCHANGED other

RemoveAllAlbumInfo ==
    /\ tag' = remove_all_album_info(tag)
    /\ last' = [op |-> "remove_all_album_info", before |-> tag]
    /\ UNCHANGED other

CopyTo ==
    /\ other' = copy_to(tag, other)
    /\ WithinBounds(other')
    /\ last' = [op |-> "copy_to"]
    /\ UNCHANGED tag

(***************************************************************************)
(* The specifications.  Spec: one Tag, constructed empty or read from a    *)
(* file, under the title and artist calls; SpecDate: under the date calls; *)
(* SpecAlbum: under the album calls; SpecRead: read_from_path on every     *)
(* extension and parser result.                                            *)
(***************************************************************************)
Init ==
    /\ tag \in Constructed(TextFiles)
    /\ other = new_empty_flac
    /\ last = [op |-> "new"]

Next == SetTitle \/ RemoveTitle \/ SetArtist \/ RemoveArtist

Spec == Init /\ [][Next]_vars

InitDate ==
    /\ tag \in Constructed(DateFiles)
    /\ other = new_empty_flac
    /\ last = [op |-> "new"]

NextDate == SetDate \/ RemoveDate

SpecDate == InitDate /\ [][NextDate]_vars

InitAlbum ==
    /\ tag \in Constructed(AlbumFiles)
    /\ other = new_empty_flac
    /\ last = [op |-> "new"]

NextAlbum == SetAlbumInfo \/ RemoveAllAlbumInfo

SpecAlbum == InitAlbum /\ [][NextAlbum]_vars

(* the Tags of copy_to: each built by the setters from an empty Tag of its *)
(* variant (an OpusTag is read from a file without comments)              *)
Built(k, ot, oa, od, oal) ==
    LET t0 == IF k = "OpusTag"
                 THEN read_from_path(Extension("opus"), ParseOk(DefaultTag(k))).tag[1]
                 ELSE DefaultTag(k)
        t1 == IF IsSome(oal) THEN set_album_info(t0, oal[1]).tag ELSE t0
        t2 == IF IsSome(ot) THEN set_title(t1, ot[1]) ELSE t1
        t3 == IF IsSome(oa) THEN set_artist(t2, oa[1]) ELSE t2
        t4 == IF IsSome(od) THEN set_date(t3, od[1]) ELSE t3
    IN t4

CopySources ==
    {Built(k, ot, oa, od, oal) :
        k \in Kinds, ot \in {None, Some(sA)}, oa \in {None, Some(<<>>), Some(sA)},
        od \in {None, Some(Timestamp(2024, Some(3), Some(15), None, None, None)),
                Some(Timestamp(2024, Some(3), Some(15), Some(10), Some(30), None))},
        oal \in {None, Some(Album(Some(sA), Some(sA), Some(Picture(<<2>>, "image/jpeg")))),
                 Some(Album(None, Some(sA), Some(Picture(<<2>>, "image/gif"))))}}

CopyDestinations ==
    {Built(k, ot, oa, od, oal) :
        k \in Kinds, ot \in {None, Some(sB)}, oa \in {None, Some(sB)},
        od \in {None, Some(Timestamp(7, None, None, None, None, None))},
        oal \in {None, Some(Album(Some(sB), Some(sB), Some(Picture(<<1>>, "image/png"))))}}

InitCopy ==
    /\ tag \in CopySources
    /\ other \in CopyDestinations
    /\ last = [op |-> "new"]

NextCopy == CopyTo

SpecCopy == InitCopy /\ [][NextCopy]_vars

InitRead ==
    /\ tag \in {new_empty_id3, new_empty_flac, new_empty_mp4}
    /\ other = new_empty_flac
    /\ last = [op |-> "new"]

NextRead == ReadFromPath

SpecRead == InitRead /\ [][NextRead]_vars
(***************************************************************************)
(* The claims.                                                             *)
(***************************************************************************)

(* C1: on every variant and from every earlier state, title() after       *)
(* set_title(t) is t, and artist() after set_artist(a) is a for a         *)
(* non-empty a without the "; " delimiter; a second set_title replaces    *)
(* the value of the first.                                                *)
C1_SetThenGet ==
    /\ last.op = "set_title" => title(tag) = Some(last.arg)
    /\ (last.op = "set_artist" /\ last.arg # <<>>) => artist(tag) = Some(last.arg)

(* C2: on every variant and from every earlier state, after               *)
(* set_album_info with title, artist and cover all given returns Ok,      *)
(* get_album_info() returns that title, that artist and a cover with the  *)
(* given data and mime_type.                                              *)
C2_AlbumSetThenGet ==
    (/\ last.op = "set_album_info"
     /\ last.result = "Ok"
     /\ IsSome(last.arg.title) /\ IsSome(last.arg.artist) /\ IsSome(last.arg.cover))
    => get_album_info(tag) = Some(last.arg)

(* the year fits four digits and every present component two *)
InRange(ts) ==
    /\ ts.year >= 0 /\ ts.year <= 9999
    /\ \A c \in {ts.month, ts.day, ts.hour, ts.minute, ts.second} : IsSome(c) => c[1] <= 99

(* C3, as stated: on every variant, date() after set_date(ts) equals ts   *)
(* in all six components.                                                 *)
(* in all six components, here for the ts of a four-digit year and        *)
(* two-digit components.                                                  *)
C3_DateRoundTrip == (last.op = "set_date" /\ InRange(last.arg)) => date(tag) = Some(last.arg)

(* ts cut at its first absent component *)
Truncated(ts) ==
    LET mo == ts.month
        d == IF IsSome(mo) THEN ts.day ELSE None
        h == IF IsSome(d) THEN ts.hour ELSE None
        mi == IF IsSome(h) THEN ts.minute ELSE None
        sec == IF IsSome(mi) THEN ts.second ELSE None
    IN Timestamp(ts.year, mo, d, h, mi, sec)

(* ts as a calendar date: an absent month or day is 0, no time of day *)
DateOnly(ts) ==
    Timestamp(ts.year, Some(UnwrapOrDefault(ts.month)), Some(UnwrapOrDefault(ts.day)),
              None, None, None)

(* C3, amended: for a ts whose year is within 0..9999 and whose present   *)
(* components are at most 99, date() after set_date(ts) is, on ID3, ts    *)
(* cut at its first absent component, and on Vorbis/FLAC, MP4 and Opus    *)
(* the year, month and day of ts with an absent month or day read back as *)
(* 0 and without hour, minute and second; so it equals ts exactly when,   *)
(* on ID3, no component follows an absent one and, on the other three,    *)
(* month and day are present and hour, minute and second are absent.      *)
C3_DateReadBack ==
    (last.op = "set_date" /\ InRange(last.arg)) =>
        /\ date(tag) = Some(IF tag.kind = "Id3Tag" THEN Truncated(last.arg) ELSE DateOnly(last.arg))
        /\ (date(tag) = Some(last.arg)) <=>
              IF tag.kind = "Id3Tag"
              THEN /\ IsSome(last.arg.day) => IsSome(last.arg.month)
                   /\ IsSome(last.arg.hour) => IsSome(last.arg.day)
                   /\ IsSome(last.arg.minute) => IsSome(last.arg.hour)
                   /\ IsSome(last.arg.second) => IsSome(last.arg.minute)
              ELSE /\ IsSome(last.arg.month) /\ IsSome(last.arg.day)
                   /\ ~IsSome(last.arg.hour) /\ ~IsSome(last.arg.minute)
                   /\ ~IsSome(last.arg.second)

(* a date with hour and minute was set and read back without them on a    *)
(* plain-text variant, and one with a day but no month was set on ID3     *)
C3_Witness ==
    /\ last.op = "set_date" /\ InRange(last.arg)
    /\ \/ /\ tag.kind = "OpusTag" /\ IsSome(last.arg.hour) /\ IsSome(last.arg.minute)
          /\ date(tag) = Some(DateOnly(last.arg)) /\ date(tag) # Some(last.arg)
       \/ /\ tag.kind = "Id3Tag" /\ IsSome(last.arg.day) /\ ~IsSome(last.arg.month)
          /\ date(tag) # Some(last.arg)

(* the values stored for the date of a plain-text variant *)
StoredDates(t) ==
    LET k == CHOOSE x \in DateKeys(t.kind) : TRUE
    IN IF k \in DOMAIN t.comments THEN t.comments[k] ELSE <<>>

(* text has the form YYYY-MM-DD *)
IsDateText(s) ==
    /\ Len(s) = 10
    /\ \A i \in {1, 2, 3, 4, 6, 7, 9, 10} : IsDigit(s[i])
    /\ s[5] = "-" /\ s[8] = "-"

(* C4: on Vorbis/FLAC, MP4 and Opus, set_date(ts) stores, for every ts,   *)
(* exactly one text of the form YYYY-MM-DD that holds the year, the month *)
(* and the day of ts (00 for an absent one), and date() is then present   *)
(* with hour, minute and second absent.                                   *)
C4_DateText ==
    (last.op = "set_date" /\ tag.kind # "Id3Tag") =>
        /\ Len(StoredDates(tag)) = 1
        /\ IsDateText(StoredDates(tag)[1])
        /\ IsSome(date(tag))
        /\ date(tag) = Some(DateOnly(last.arg))

SupportedMime == {"image/bmp", "image/jpeg", "image/png"}

AlbumArtistSpellings == {"ALBUMARTIST", "ALBUM ARTIST", "ALBUM_ARTIST"}

StoredArtists(t) ==
    LET k == IF t.kind = "OpusTag" THEN "artist" ELSE "ARTIST"
    IN IF k \in DOMAIN t.comments THEN t.comments[k] ELSE <<>>

(* C7: on Vorbis/FLAC and Opus, artist() is the stored ARTIST values      *)
(* joined in order with "; ", and is absent, never a present empty text,  *)
(* when there is no ARTIST value or the joined text is empty.             *)
C7_ArtistJoin ==
    tag.kind \in {"VorbisFlacTag", "OpusTag"} =>
        /\ artist(tag) # Some(<<>>)
        /\ artist(tag) = IF Join(StoredArtists(tag), <<";", " ">>) = <<>> THEN None
                         ELSE Some(Join(StoredArtists(tag), <<";", " ">>))

(* C8: read_from_path picks the codec by the extension alone: mp3, wav,   *)
(* aiff the ID3 codec; flac the FLAC codec; mp4, m4a, m4p, m4b, m4r, m4v  *)
(* the MP4 codec; opus the Opus codec; no extension is NoFileExtension, a *)
(* non-unicode one InvalidFileExtension, any other one                    *)
(* UnsupportedAudioFormat with no codec invoked.                          *)
C8_ExtensionTable ==
    last.op = "read_from_path" =>
        LET e == last.arg
            r == last.result
            Picks(c, k) == r.codec = c /\ (r.ok => r.tag[1].kind = k /\ tag = r.tag[1])
            Fails(v) == ~r.ok /\ r.codec = "none" /\ r.err = <<[kind |-> "", variant |-> v]>>
        IN IF ~e.present THEN Fails("NoFileExtension")
           ELSE IF ~e.unicode THEN Fails("InvalidFileExtension")
           ELSE IF e.text \in {"mp3", "wav", "aiff"} THEN Picks("id3", "Id3Tag")
           ELSE IF e.text = "flac" THEN Picks("metaflac", "VorbisFlacTag")
           ELSE IF e.text \in {"mp4", "m4a", "m4p", "m4b", "m4r", "m4v"} THEN Picks("mp4ameta", "Mp4Tag")
           ELSE IF e.text = "opus" THEN Picks("opusmeta", "OpusTag")
           ELSE Fails("UnsupportedAudioFormat")

(* an aiff file was read into an ID3 Tag *)
C8_Witness ==
    /\ last.op = "read_from_path" /\ last.arg = Extension("aiff")
    /\ last.result.ok /\ tag.kind = "Id3Tag" /\ tag.comments # EmptyMap

C10_CopyFields ==
    last.op = "copy_to" =>
        /\ IsSome(title(tag)) => title(other) = title(tag)
        /\ IsSome(artist(tag)) => artist(other) = artist(tag)
        /\ IsSome(date(tag)) => date(other) = date(tag)
        /\ IsSome(get_album_info(tag)[1].title) =>
             get_album_info(other)[1].title = get_album_info(tag)[1].title
        /\ IsSome(get_album_info(tag)[1].artist) =>
             get_album_info(other)[1].artist = get_album_info(tag)[1].artist

(* the keys, frames or atoms that hold the album title of a variant *)
AlbumTitleKeys(k) ==
    CASE k = "Id3Tag" -> {"TALB"}
      [] k = "VorbisFlacTag" -> {"ALBUM"}
      [] k = "Mp4Tag" -> {"(c)alb"}
      [] k = "OpusTag" -> {"album"}

(* the store holds a value under one of the keys *)
HasValue(t, keys) == \E k \in keys \cap DOMAIN t.comments : Len(t.comments[k]) > 0

(* C11: on every variant, get_album_info() is None when the album or the  *)
(* album artist is not present in the Tag, and is Some(Album) only when   *)
(* they are present.                                                      *)
C11_NoneWhenAbsent ==
    IsSome(get_album_info(tag)) =>
        /\ HasValue(tag, AlbumTitleKeys(tag.kind))
        /\ HasValue(tag, AlbumKeys(tag.kind) \ AlbumTitleKeys(tag.kind))

(* the first value stored under a key, if any *)
FirstStored(t, k) == IF k \in DOMAIN t.comments THEN First(t.comments[k]) ELSE None

(* C12: on an Opus Tag the album artist of get_album_info() is the first  *)
(* value of the ALBUMARTIST comment, absent exactly when the store has no *)
(* ALBUMARTIST value; on a Vorbis/FLAC Tag it is the first value of       *)
(* ALBUM_ARTIST, and a write sets ALBUM_ARTIST, ALBUMARTIST and           *)
(* ALBUM ARTIST to the same single value.                                 *)
C12_AlbumArtistKey ==
    /\ tag.kind = "OpusTag" =>
         get_album_info(tag)[1].artist = FirstStored(tag, "albumartist")
    /\ tag.kind = "VorbisFlacTag" =>
         get_album_info(tag)[1].artist = FirstStored(tag, "ALBUM_ARTIST")
    /\ (/\ tag.kind \in {"VorbisFlacTag"}
        /\ last.op = "set_album_info"
        /\ IsSome(last.arg.artist))
       => \A k \in AlbumArtistSpellings :
             k \in DOMAIN tag.comments /\ tag.comments[k] = <<last.arg.artist[1]>>

(* C13: copy_to onto a destination of the same variant as the source is a *)
(* refresh: once the destination holds the source's fields after a first  *)
(* copy_to, a further copy_to from the same source leaves the             *)
(* destination's stored content unchanged, adding no duplicate comment    *)
(* values or pictures, for each of the four variants.                     *)
C13_CopyTwice ==
    [][(/\ tag.kind = other.kind
        /\ last.op = "copy_to"
        /\ last'.op = "copy_to")
       => other' = other]_vars
====
